---- MODULE Spec2Model ----
(***************************************************************************)
(* Model of src/callbacks.py: the Dash callback control_and_update that    *)
(* starts, stops and steps the two-node economy simulation, together with  *)
(* the EconomyNetwork engine it drives.  The engine (src.sim) is imported  *)
(* by callbacks.py but is not part of the given sources; its operators     *)
(* are written from its documented contract.                               *)
(*                                                                         *)
(* Propensities are fixed-point numbers: One stands for 1.0 and Hundredth  *)
(* for 0.01, so that round(v, 2) is a real conversion.                     *)
(***************************************************************************)
EXTENDS Integers, Sequences, FiniteSets, TLC

VARIABLES screen, econ_store, disabled, fig1, fig_combined,
          alpha_output, rho_output, inflight, last

vars == <<screen, econ_store, disabled, fig1, fig_combined,
          alpha_output, rho_output, inflight, last>>

----------------------------------------------------------------------------
(* Bounds of the model *)

\* longest History a step request is allowed to start from, plus one
MaxSnapshots == 3

\* most requests sent and not yet answered
MaxInFlight == 2

----------------------------------------------------------------------------
(* Numbers *)

\* 0.01 in model units: the resolution round(v, 2) rounds to
Hundredth == 10

One == 100 * Hundredth

\* an optional value: <<>> is Python's None, <<v>> is the value v
None == <<>>

Some(v) == <<v>>

IsNone(o) == o = <<>>

InUnit(v) == 0 <= v /\ v <= One

Clamp(v) == IF v < 0 THEN 0 ELSE IF v > One THEN One ELSE v

\* Python's round(v, 2): nearest hundredth, ties to the even hundredth
Round2(v) ==
    LET q == v \div Hundredth
        r == v % Hundredth
    IN  IF 2 * r < Hundredth THEN q * Hundredth
        ELSE IF 2 * r > Hundredth THEN (q + 1) * Hundredth
        ELSE IF q % 2 = 0 THEN q * Hundredth ELSE (q + 1) * Hundredth

\* Python's s[-n:] on a list
LastN(s, n) ==
    LET len  == Len(s)
        from == IF n > 0 THEN (IF n >= len THEN 1 ELSE len - n + 1)
                ELSE IF n = 0 THEN 1
                ELSE (IF -n >= len THEN len + 1 ELSE -n + 1)
    IN  SubSeq(s, from, len)

RECURSIVE SeqSum(_)
SeqSum(s) == IF s = <<>> THEN 0 ELSE s[1] + SeqSum(Tail(s))

----------------------------------------------------------------------------
(* The values the inputs are drawn from *)

\* s_h_input
HouseholdSavings == {0, 500}

\* s_f_input
FirmSavings == {250}

\* alpha_input; 1200 is out of range
PropensityInputs == {300, 1200}

\* rho_input; 1200 is out of range
RhoInputs == {400, 1200}

\* sens_input
SensValues == {250, 500}

\* mem_input; 0 is an invalid window
MemValues == {0, 1, 3}

\* values the user can set a slider to; 1200 is out of range, 254 is not a
\* hundredth
SliderValues == {Some(254), Some(1200)}

----------------------------------------------------------------------------
(* The engine EconomyNetwork (src.sim, imported at callbacks.py line 30).  *)
(* A History is a Python dict in insertion order: a sequence of entries    *)
(* [k |-> key, v |-> Snapshot].                                            *)

\* squared multiplier of the outlier rule: a value is flagged when its
\* squared deviation from the window mean exceeds OutlierK2 variances
OutlierK2 == 1

Keys(sys) == {sys[i].k : i \in 1..Len(sys)}

\* max(econ.sys.keys()) of a non-empty History
MaxKey(sys) == CHOOSE m \in Keys(sys) : \A k \in Keys(sys) : k <= m

\* econ.sys[t]
At(sys, t) == (CHOOSE i \in 1..Len(sys) : sys[i].k = t)

Latest(sys) == sys[At(sys, MaxKey(sys))].v

Snapshot(alpha, rho, s_h, s_f, out_alpha, out_rho) ==
    [alpha |-> alpha, rho |-> rho, s_h |-> s_h, s_f |-> s_f,
     outliers |-> [alpha |-> out_alpha, rho |-> out_rho]]

\* detect_outliers(series, window): one flag per value of the window, the
\* last `window` values of the series, oldest first
detect_outliers(series, window) ==
    LET w  == LastN(series, window)
        n  == Len(w)
        S  == SeqSum(w)
        Q  == SeqSum([i \in 1..n |-> w[i] * w[i]])
    IN  [i \in 1..n |->
            /\ n >= 2
            /\ (n * w[i] - S) * (n * w[i] - S) > OutlierK2 * (n * Q - S * S)]

\* the update rule of step(): each propensity moves towards the share its
\* agent does not retain, by the fraction sens
NextAlpha(prev, sens) ==
    Clamp(prev.alpha + (sens * ((One - prev.s_h) - prev.alpha)) \div One)

NextRho(prev, sens) ==
    Clamp(prev.rho + (sens * ((One - prev.s_f) - prev.rho)) \div One)

\* EconomyNetwork([s_h, s_f], [alpha, rho], sens, mem): ConfigurationError
\* on an invalid window or propensity, else a History of one Snapshot at 0
EconomyNetwork(params, props, sens, mem) ==
    IF mem < 1 \/ ~InUnit(props[1]) \/ ~InUnit(props[2])
    THEN [ok |-> FALSE, err |-> "ConfigurationError", sys |-> <<>>,
          sens |-> sens, mem |-> mem]
    ELSE [ok |-> TRUE, err |-> "",
          sys |-> << [k |-> 0,
                      v |-> Snapshot(props[1], props[2], params[1], params[2],
                                     <<FALSE>>, <<FALSE>>)] >>,
          sens |-> sens, mem |-> mem]

\* econ.step(alpha_override, rho_override): appends one Snapshot at
\* max(keys)+1, or fails leaving econ.sys as it was
step(econ, alpha_override, rho_override) ==
    IF econ.sys = <<>>
    THEN [econ EXCEPT !.ok = FALSE, !.err = "InvalidStateError"]
    ELSE IF \/ (~IsNone(alpha_override) /\ ~InUnit(alpha_override[1]))
            \/ (~IsNone(rho_override) /\ ~InUnit(rho_override[1]))
    THEN [econ EXCEPT !.ok = FALSE, !.err = "ValidationError"]
    ELSE
      LET prev  == Latest(econ.sys)
          alpha == IF IsNone(alpha_override) THEN NextAlpha(prev, econ.sens)
                   ELSE alpha_override[1]
          rho   == IF IsNone(rho_override) THEN NextRho(prev, econ.sens)
                   ELSE rho_override[1]
          as    == [i \in 1..Len(econ.sys) |-> econ.sys[i].v.alpha] \o <<alpha>>
          rs    == [i \in 1..Len(econ.sys) |-> econ.sys[i].v.rho] \o <<rho>>
          new   == Snapshot(alpha, rho, prev.s_h, prev.s_f,
                            detect_outliers(as, econ.mem),
                            detect_outliers(rs, econ.mem))
      IN  [econ EXCEPT !.sys = Append(econ.sys,
                                      [k |-> MaxKey(econ.sys) + 1, v |-> new])]

\* econ.get_matrix(): [[s_h, c], [w, s_f]] of the latest Snapshot
get_matrix(econ) ==
    LET cur == Latest(econ.sys)
    IN  << <<cur.s_h, (cur.alpha * (One - cur.s_h)) \div One>>,
           <<(cur.rho * (One - cur.s_f)) \div One, cur.s_f>> >>

----------------------------------------------------------------------------
(* Serialization of the History held in the econ-store component *)

\* str(n) of a key, as json.dumps writes it: its decimal digits
RECURSIVE IntToStr(_)
IntToStr(n) == IF n < 10 THEN <<n>> ELSE IntToStr(n \div 10) \o <<n % 10>>

\* int(k) of a key string
RECURSIVE StrToInt(_)
StrToInt(s) ==
    IF Len(s) = 1 THEN s[1]
    ELSE 10 * StrToInt(SubSeq(s, 1, Len(s) - 1)) + s[Len(s)]

\* json.dumps(econ.sys): integer keys become strings, order is kept
json_dumps(sys) == [i \in 1..Len(sys) |-> [k |-> IntToStr(sys[i].k), v |-> sys[i].v]]

\* LoadSys with the entries numbered from 1 in place of int(k)
LoadSys_Renumber(json) == [i \in 1..Len(json) |-> [k |-> i, v |-> json[i].v]]

\* econ.sys = {int(k): v for k, v in json.loads(econ_data).items()}
LoadSys(json) == [i \in 1..Len(json) |-> [k |-> StrToInt(json[i].k), v |-> json[i].v]]

\* the econ-store component holds None or a JSON string
NoData == [isNone |-> TRUE, json |-> <<>>]

Data(json) == [isNone |-> FALSE, json |-> json]

----------------------------------------------------------------------------
(* control_and_update.  An output is <<>> for no_update or <<value>>.      *)
(* A result carries the seven outputs and, for the properties, what the    *)
(* request did: the overrides it chose, the entry step() appended, the     *)
(* Snapshot fields assigned after step() returned and the engine's matrix. *)

NoUpdate == <<>>

LayoutFigure == [kind |-> "layout"]

\* go.Figure()
EmptyFigure == [kind |-> "empty"]

Result(status, err, outs, ao, ro, stepped, writes, matrix) ==
    [status |-> status, err |-> err, outs |-> outs,
     alpha_override |-> ao, rho_override |-> ro,
     stepped |-> stepped, writes |-> writes, matrix |-> matrix]

\* raise PreventUpdate
PreventUpdate == Result("prevent", "", <<>>, None, None, <<>>, {}, <<>>)

\* an exception leaving the callback
Raise(err, ao, ro) == Result("error", err, <<>>, ao, ro, <<>>, {}, <<>>)

\* StartFailed with the exception caught and the screen switched to 'sim'
\* over an empty store
StartFailed_Sim(err) ==
    Result("ok", err,
           << <<"sim">>, <<NoData>>, <<FALSE>>, NoUpdate, NoUpdate,
              NoUpdate, NoUpdate >>,
           None, None, <<>>, {}, <<>>)

\* line 91: an exception of the constructor leaves the callback
StartFailed(err) == Raise(err, None, None)

\* StartBranch with the two propensities passed in the other order
StartBranch_Swapped(s_h, s_f, alpha_input, rho_input, sens, mem_input) ==
    LET econ == EconomyNetwork(<<s_h, s_f>>, <<rho_input, alpha_input>>,
                               sens, mem_input)
    IN  IF ~econ.ok THEN StartFailed(econ.err)
        ELSE Result("ok", "",
                    << <<"sim">>, <<Data(json_dumps(econ.sys))>>, <<FALSE>>,
                       <<EmptyFigure>>, <<EmptyFigure>>,
                       <<Some(alpha_input)>>, <<Some(rho_input)>> >>,
                    None, None, <<>>, {}, get_matrix(econ))

\* lines 89-94
StartBranch(s_h, s_f, alpha_input, rho_input, sens, mem_input) ==
    LET econ == EconomyNetwork(<<s_h, s_f>>, <<alpha_input, rho_input>>,
                               sens, mem_input)
    IN  IF ~econ.ok THEN StartFailed(econ.err)
        ELSE Result("ok", "",
                    << <<"sim">>, <<Data(json_dumps(econ.sys))>>, <<FALSE>>,
                       <<EmptyFigure>>, <<EmptyFigure>>,
                       <<Some(alpha_input)>>, <<Some(rho_input)>> >>,
                    None, None, <<>>, {}, get_matrix(econ))

\* StopBranch with the interval left enabled
StopBranch_TimerOn ==
    Result("ok", "",
           << <<"setup">>, NoUpdate, <<FALSE>>, NoUpdate, NoUpdate,
              NoUpdate, NoUpdate >>,
           None, None, <<>>, {}, <<>>)

\* StopBranch with the store cleared
StopBranch_Clear ==
    Result("ok", "",
           << <<"setup">>, <<NoData>>, <<TRUE>>, NoUpdate, NoUpdate,
              NoUpdate, NoUpdate >>,
           None, None, <<>>, {}, <<>>)

\* lines 96-98
StopBranch ==
    Result("ok", "",
           << <<"setup">>, NoUpdate, <<TRUE>>, NoUpdate, NoUpdate,
              NoUpdate, NoUpdate >>,
           None, None, <<>>, {}, <<>>)

\* Rehydrate without line 107: the fresh engine keeps its own History
Rehydrate_KeepFresh(econ_data, sens, mem_input) ==
    EconomyNetwork(<<0, 0>>, <<One \div 2, One \div 2>>, sens, mem_input)

\* Rehydrate with the engine's memory one more than mem_input
Rehydrate_LongerMemory(econ_data, sens, mem_input) ==
    LET econ == EconomyNetwork(<<0, 0>>, <<One \div 2, One \div 2>>,
                               sens, mem_input + 1)
    IN  IF ~econ.ok THEN econ
        ELSE [econ EXCEPT !.sys = LoadSys(econ_data.json)]

\* lines 104-107: a fresh engine whose History is replaced by the stored one
Rehydrate(econ_data, sens, mem_input) ==
    LET econ == EconomyNetwork(<<0, 0>>, <<One \div 2, One \div 2>>,
                               sens, mem_input)
    IN  IF ~econ.ok THEN econ
        ELSE [econ EXCEPT !.sys = LoadSys(econ_data.json)]

\* ApplyOverrides with t one step too early
ApplyOverrides_Previous(sys, alpha_override, rho_override) ==
    LET i  == At(sys, MaxKey(sys) - 1)
        s1 == IF IsNone(alpha_override) THEN sys
              ELSE [sys EXCEPT ![i].v.alpha = alpha_override[1]]
    IN  IF IsNone(rho_override) THEN s1
        ELSE [s1 EXCEPT ![i].v.rho = rho_override[1]]

\* lines 116-120: the overrides assigned into the Snapshot at the largest key
ApplyOverrides(sys, alpha_override, rho_override) ==
    LET i  == At(sys, MaxKey(sys))
        s1 == IF IsNone(alpha_override) THEN sys
              ELSE [sys EXCEPT ![i].v.alpha = alpha_override[1]]
    IN  IF IsNone(rho_override) THEN s1
        ELSE [s1 EXCEPT ![i].v.rho = rho_override[1]]

\* Advance with step() called twice
Advance_Twice(econ, alpha_override, rho_override) ==
    LET e == step(econ, alpha_override, rho_override)
    IN  IF e.ok THEN step(e, alpha_override, rho_override) ELSE e

\* Advance with step() called without the overrides, left to lines 116-120
Advance_NoOverrides(econ, alpha_override, rho_override) ==
    step(econ, None, None)

\* line 114: the one call of step(), given both overrides
Advance(econ, alpha_override, rho_override) ==
    step(econ, alpha_override, rho_override)

\* StepFailed with the error caught and the session reset
StepFailed_Reset(err, alpha_override, rho_override) ==
    Result("ok", err,
           << <<"setup">>, <<NoData>>, <<TRUE>>, NoUpdate, NoUpdate,
              NoUpdate, NoUpdate >>,
           alpha_override, rho_override, <<>>, {}, <<>>)

\* lines 106 and 114 sit in no try block: an error of the engine leaves the
\* callback as an exception
StepFailed(err, alpha_override, rho_override) ==
    Raise(err, alpha_override, rho_override)

\* the fields lines 117-120 assign
OverrideWrites(alpha_override, rho_override) ==
    (IF IsNone(alpha_override) THEN {} ELSE {"alpha"})
        \cup (IF IsNone(rho_override) THEN {} ELSE {"rho"})

\* lines 123-128: the series and their last mem_input points
t_vals(sys) == [i \in 1..Len(sys) |-> sys[i].k - MaxKey(sys)]

alpha_vals(sys) == [i \in 1..Len(sys) |-> Round2(sys[i].v.alpha)]

rho_vals(sys) == [i \in 1..Len(sys) |-> Round2(sys[i].v.rho)]

\* PlotWindow without the slice: the whole series is plotted
PlotWindow_All(series, mem_input) == series

\* lines 126-128: the plotted window, series[-mem_input:]
PlotWindow(series, mem_input) == LastN(series, mem_input)

\* StoredHistory with the History cut to the plotted window
StoredHistory_Windowed(sys, mem_input) == json_dumps(LastN(sys, mem_input))

\* line 229: the second output is all of econ.sys, whatever mem_input is
StoredHistory(sys, mem_input) == json_dumps(sys)

\* the indices enumerate() yields for the flags that are set
Flagged(flags) == {i \in 1..Len(flags) : flags[i]}

\* lines 149-227: the time-series figure; add_trace of a star reads
\* t_plot[i] and the plotted value at the flag's position
CombinedFigure(t_plot, alpha_plot, rho_plot, alpha_outliers, rho_outliers) ==
    [kind |-> "combined", t_plot |-> t_plot,
     alpha_plot |-> alpha_plot, rho_plot |-> rho_plot,
     alpha_stars |-> {<<t_plot[i], alpha_plot[i]>> : i \in Flagged(alpha_outliers)},
     rho_stars |-> {<<t_plot[i], rho_plot[i]>> : i \in Flagged(rho_outliers)}]

\* ChooseOverride with the slider value passed whatever fired
ChooseOverride_Always(trigger_id, own_id, slider) == slider

\* lines 110-111: the slider value if that slider fired, else None
ChooseOverride(trigger_id, own_id, slider) ==
    IF trigger_id = own_id THEN slider ELSE None

\* lines 100-229
StepBranch(trigger_id, alpha_slider, rho_slider, scr, econ_data, sens, mem_input) ==
    IF econ_data.isNone THEN PreventUpdate
    ELSE
      LET econ0 == Rehydrate(econ_data, sens, mem_input)
          alpha_override == ChooseOverride(trigger_id, "alpha-output", alpha_slider)
          rho_override   == ChooseOverride(trigger_id, "rho-output", rho_slider)
      IN
      IF ~econ0.ok THEN StepFailed(econ0.err, None, None)
      ELSE
        LET econ1 == Advance(econ0, alpha_override, rho_override)
        IN
        IF ~econ1.ok THEN StepFailed(econ1.err, alpha_override, rho_override)
        ELSE
          LET sys    == ApplyOverrides(econ1.sys, alpha_override, rho_override)
              t      == MaxKey(sys)
              t_plot == PlotWindow(t_vals(sys), mem_input)
              alpha_plot == PlotWindow(alpha_vals(sys), mem_input)
              rho_plot   == PlotWindow(rho_vals(sys), mem_input)
              econ   == [econ1 EXCEPT !.sys = sys]
              alpha_outliers == sys[At(sys, t)].v.outliers.alpha
              rho_outliers   == sys[At(sys, t)].v.outliers.rho
          IN
          IF \/ t_plot = <<>>
             \/ \E i \in Flagged(alpha_outliers) : i > Len(t_plot)
             \/ \E i \in Flagged(rho_outliers) : i > Len(t_plot)
          THEN Raise("IndexError", alpha_override, rho_override)
          ELSE Result("ok", "",
                      << <<scr>>, <<Data(StoredHistory(sys, mem_input))>>, <<FALSE>>,
                         <<[kind |-> "heatmap", z |-> get_matrix(econ)]>>,
                         <<CombinedFigure(t_plot, alpha_plot, rho_plot,
                                          alpha_outliers, rho_outliers)>>,
                         <<Some(alpha_vals(sys)[Len(sys)])>>,
                         <<Some(rho_vals(sys)[Len(sys)])>> >>,
                      alpha_override, rho_override,
                      <<econ1.sys[Len(econ1.sys)]>>,
                      OverrideWrites(alpha_override, rho_override),
                      get_matrix(econ))

StepTriggers == {"interval-update", "alpha-output", "rho-output"}

\* control_and_update with the step branch taken whatever the screen
control_and_update_AnyScreen(trigger_id, alpha_slider, rho_slider, scr, econ_data, s_h, s_f, alpha_input, rho_input, sens, mem_input) ==
    IF trigger_id = "start_btn"
    THEN StartBranch(s_h, s_f, alpha_input, rho_input, sens, mem_input)
    ELSE IF trigger_id = "stop_btn"
    THEN StopBranch
    ELSE IF trigger_id \in StepTriggers
    THEN StepBranch(trigger_id, alpha_slider, rho_slider, scr, econ_data,
                    sens, mem_input)
    ELSE PreventUpdate

\* lines 83-232: the dispatch on the triggering input
control_and_update(trigger_id, alpha_slider, rho_slider, scr, econ_data, s_h, s_f, alpha_input, rho_input, sens, mem_input) ==
    IF trigger_id = "start_btn"
    THEN StartBranch(s_h, s_f, alpha_input, rho_input, sens, mem_input)
    ELSE IF trigger_id = "stop_btn"
    THEN StopBranch
    ELSE IF trigger_id \in StepTriggers /\ scr = "sim"
    THEN StepBranch(trigger_id, alpha_slider, rho_slider, scr, econ_data,
                    sens, mem_input)
    ELSE PreventUpdate

----------------------------------------------------------------------------
(* The components and the events.  Dash calls control_and_update with the  *)
(* values the components hold when an input fires and sets the outputs to  *)
(* what it returns; an exception or PreventUpdate leaves every output as   *)
(* it was.  `last` records the latest request answered.                    *)

Out(cur, o) == IF o = NoUpdate THEN cur ELSE o[1]

\* the arguments of one call: the trigger, the Input values and the State
\* values, screen and econ-store among them, as they are when the input fires
Request(trigger_id, alpha_slider, rho_slider, s_h, s_f, alpha_input, rho_input, sens, mem_input) ==
    [trigger_id |-> trigger_id, alpha_slider |-> alpha_slider,
     rho_slider |-> rho_slider, screen |-> screen, econ_data |-> econ_store,
     s_h |-> s_h, s_f |-> s_f, alpha_input |-> alpha_input,
     rho_input |-> rho_input, sens |-> sens, mem_input |-> mem_input]

\* the call itself
Handle(req) ==
    control_and_update(req.trigger_id, req.alpha_slider, req.rho_slider,
                       req.screen, req.econ_data, req.s_h, req.s_f,
                       req.alpha_input, req.rho_input, req.sens, req.mem_input)

\* the record kept of a request: its trigger and result, the store a step
\* request read, the sens and memory inputs of a request that stepped, the
\* number of steps since the start, and the matrix returned by the engine
\* that produced the stored History; the screen State and the slider values
\* the request carried, the components as they were when it was answered
\* (kept unless the request started or stepped the simulation), the
\* propensities a start was given and the length of the History it replaced,
\* and whether a start or stop has been requested and has returned
Record(req, r, cur_alpha, cur_rho) ==
    LET wrote   == r.status = "ok" /\ r.outs[2] # NoUpdate
        stepped == r.status = "ok" /\ r.stepped # <<>>
        started == req.trigger_id = "start_btn" /\ r.status = "ok" /\ r.err = ""
        button  == req.trigger_id \in {"start_btn", "stop_btn"}
    IN
    [trigger |-> req.trigger_id, status |-> r.status, err |-> r.err,
     alpha_override |-> r.alpha_override, rho_override |-> r.rho_override,
     before |-> IF req.trigger_id \in StepTriggers THEN req.econ_data ELSE NoData,
     stepped |-> r.stepped, writes |-> r.writes,
     sens |-> IF stepped THEN req.sens ELSE 0,
     mem |-> IF stepped THEN req.mem_input ELSE 0,
     steps |-> IF stepped THEN last.steps + 1
               ELSE IF wrote THEN 0 ELSE last.steps,
     matrix |-> IF wrote THEN r.matrix ELSE last.matrix,
     scr |-> IF req.trigger_id \in StepTriggers THEN req.screen ELSE "",
     mem_input |-> IF req.trigger_id = "stop_btn" THEN None
                   ELSE Some(req.mem_input),
     sliders |-> IF req.trigger_id \in StepTriggers
                 THEN <<req.alpha_slider, req.rho_slider>> ELSE <<>>,
     pre |-> IF started \/ stepped THEN <<>>
             ELSE <<[screen |-> screen, econ_store |-> econ_store,
                     disabled |-> disabled, fig1 |-> fig1,
                     fig_combined |-> fig_combined,
                     alpha_output |-> cur_alpha, rho_output |-> cur_rho]>>,
     given |-> IF started THEN <<req.alpha_input, req.rho_input>> ELSE <<>>,
     replaced |-> IF ~started THEN 0
                  ELSE IF econ_store.isNone THEN 0 ELSE Len(econ_store.json),
     requested |-> last.requested \/ button,
     returned |-> last.returned \/ (button /\ r.status = "ok")]

\* the call of a request answered: its outputs are set on the components,
\* whose sliders hold cur_alpha and cur_rho
Deliver(req, cur_alpha, cur_rho) ==
    \E r \in {Handle(req)} :
        /\ last' = Record(req, r, cur_alpha, cur_rho)
        /\ IF r.status = "ok"
           THEN /\ screen'       = Out(screen, r.outs[1])
                /\ econ_store'   = Out(econ_store, r.outs[2])
                /\ disabled'     = Out(disabled, r.outs[3])
                /\ fig1'         = Out(fig1, r.outs[4])
                /\ fig_combined' = Out(fig_combined, r.outs[5])
                /\ alpha_output' = Out(cur_alpha, r.outs[6])
                /\ rho_output'   = Out(cur_rho, r.outs[7])
           ELSE /\ alpha_output' = cur_alpha
                /\ rho_output'   = cur_rho
                /\ UNCHANGED <<screen, econ_store, disabled, fig1, fig_combined>>

\* a request answered before any other input fires
Invoke(req) ==
    /\ Deliver(req, req.alpha_slider, req.rho_slider)
    /\ UNCHANGED inflight

\* a step request may start only from a History shorter than MaxSnapshots
Room == econ_store.isNone \/ Len(econ_store.json) < MaxSnapshots

Init ==
    /\ screen = "setup"
    /\ econ_store = NoData
    /\ disabled \in BOOLEAN
    /\ fig1 = LayoutFigure
    /\ fig_combined = LayoutFigure
    /\ alpha_output = None
    /\ rho_output = None
    /\ inflight = <<>>
    /\ last = [trigger |-> "init", status |-> "ok", err |-> "",
               alpha_override |-> None, rho_override |-> None,
               before |-> NoData, stepped |-> <<>>, writes |-> {},
               sens |-> 0, mem |-> 0, steps |-> 0, matrix |-> <<>>,
               scr |-> "", mem_input |-> None, sliders |-> <<>>, pre |-> <<>>,
               given |-> <<>>, replaced |-> 0,
               requested |-> FALSE, returned |-> FALSE]

\* the propensities and memory the engine's constructor accepts
Accepted(alpha_input, rho_input, mem_input) ==
    InUnit(alpha_input) /\ InUnit(rho_input) /\ mem_input >= 1

\* a click on start_btn, with the values of the setup inputs: every setup
\* the constructor accepts, and every rejected combination of propensities
\* and memory with the least savings and sens
Start ==
    \E s_h \in HouseholdSavings, s_f \in FirmSavings,
       alpha_input \in PropensityInputs, rho_input \in RhoInputs,
       sens \in SensValues, mem_input \in MemValues :
        /\ \/ Accepted(alpha_input, rho_input, mem_input)
           \/ /\ \A h \in HouseholdSavings : s_h <= h
              /\ \A x \in SensValues : sens <= x
        /\ Invoke(Request("start_btn", alpha_output, rho_output, s_h, s_f,
                       alpha_input, rho_input, sens, mem_input))

\* a click on stop_btn; its branch reads none of the inputs
Stop ==
    Invoke(Request("stop_btn", alpha_output, rho_output, 0, 0, 0, 0, 0, 0))

\* the interval component fires while it is enabled
Tick ==
    /\ ~disabled
    /\ Room
    /\ \E sens \in SensValues, mem_input \in MemValues :
        Invoke(Request("interval-update", alpha_output, rho_output,
                       0, 0, 0, 0, sens, mem_input))

\* the user sets the alpha slider to v
AlphaSlider ==
    /\ Room
    /\ \E v \in SliderValues, sens \in SensValues, mem_input \in MemValues :
        /\ v # alpha_output
        /\ Invoke(Request("alpha-output", v, rho_output, 0, 0, 0, 0,
                          sens, mem_input))

\* the user sets the rho slider to v
RhoSlider ==
    /\ Room
    /\ \E v \in SliderValues, sens \in SensValues, mem_input \in MemValues :
        /\ v # rho_output
        /\ Invoke(Request("rho-output", alpha_output, v, 0, 0, 0, 0,
                          sens, mem_input))

Next == Start \/ Stop \/ Tick \/ AlphaSlider \/ RhoSlider

Spec == Init /\ [][Next]_vars

----------------------------------------------------------------------------
(* The same callback with its requests in flight: an input that fires      *)
(* sends the request with the values the components hold then, and the     *)
(* answer sets the outputs later.  control_and_update takes the History as *)
(* the State argument econ_data and returns the new one; nothing in it     *)
(* refuses a request sent while another is unanswered.                     *)

\* the sens and memory inputs while requests are in flight: the setup
\* screen is hidden during a run and they stay as they were at the start
RunSens == {500}

RunMem == {3}

Send(req) ==
    /\ Len(inflight) < MaxInFlight
    /\ inflight' = Append(inflight, req)

\* a click on start_btn with those inputs
StartRun ==
    \E s_h \in HouseholdSavings, s_f \in FirmSavings,
       alpha_input \in PropensityInputs, rho_input \in RhoInputs,
       sens \in RunSens, mem_input \in RunMem :
        Invoke(Request("start_btn", alpha_output, rho_output, s_h, s_f,
                       alpha_input, rho_input, sens, mem_input))

SendTick ==
    /\ ~disabled
    /\ Room
    /\ \E sens \in RunSens, mem_input \in RunMem :
        Send(Request("interval-update", alpha_output, rho_output,
                     0, 0, 0, 0, sens, mem_input))
    /\ UNCHANGED <<screen, econ_store, disabled, fig1, fig_combined,
                   alpha_output, rho_output, last>>

SendAlphaSlider ==
    /\ Room
    /\ \E v \in SliderValues, sens \in RunSens, mem_input \in RunMem :
        /\ v # alpha_output
        /\ alpha_output' = v
        /\ Send(Request("alpha-output", v, rho_output, 0, 0, 0, 0,
                        sens, mem_input))
    /\ UNCHANGED <<screen, econ_store, disabled, fig1, fig_combined,
                   rho_output, last>>

\* any request in flight is answered
Answer ==
    \E i \in 1..Len(inflight) :
        /\ Deliver(inflight[i], alpha_output, rho_output)
        /\ inflight' = SubSeq(inflight, 1, i - 1)
                          \o SubSeq(inflight, i + 1, Len(inflight))

NextInFlight == StartRun \/ Stop \/ SendTick \/ SendAlphaSlider \/ Answer

SpecInFlight == Init /\ [][NextInFlight]_vars

----------------------------------------------------------------------------
(* Properties *)

\* the latest request was a step request that returned its outputs
Stepped == last.trigger \in StepTriggers /\ last.status = "ok" /\ last.err = ""

\* the History a step request read, and the History now stored
Before == LoadSys(last.before.json)

Stored == LoadSys(econ_store.json)

\* C1: a step request that is processed on the 'sim' screen from a non-empty
\* store writes back a History with exactly one more Snapshot than it read,
\* the new one keyed at max(previous keys)+1, the key of the entry that the
\* one step() of the rehydrated engine appended.
C1_StepAppendsOne ==
    Stepped =>
        /\ ~last.before.isNone /\ ~econ_store.isNone
        /\ Len(Stored) = Len(Before) + 1
        /\ Stored[Len(Stored)].k = MaxKey(Before) + 1
        /\ Keys(Stored) = Keys(Before) \cup {MaxKey(Before) + 1}
        /\ last.stepped[1].k = MaxKey(Before) + 1

C1_Witness ==
    /\ Stepped
    /\ last.trigger = "interval-update"
    /\ Len(Stored) = 3
    /\ screen = "sim"

\* C2: a step triggered by a slider stores the slider's value as the new
\* Snapshot's propensity, the other propensity is the update rule applied to
\* the previous Snapshot, and the previous Snapshots are as they were.
C2_OverrideSetsNewStepOnly ==
    Stepped =>
        LET new  == Stored[Len(Stored)].v
            prev == Latest(Before)
        IN  /\ SubSeq(Stored, 1, Len(Before)) = Before
            /\ last.trigger = "alpha-output" =>
                 /\ new.alpha = last.alpha_override[1]
                 /\ new.rho = NextRho(prev, last.sens)
            /\ last.trigger = "rho-output" =>
                 /\ new.rho = last.rho_override[1]
                 /\ new.alpha = NextAlpha(prev, last.sens)

C2_Witness ==
    /\ Stepped
    /\ last.trigger = "alpha-output"
    /\ last.alpha_override = Some(254)
    /\ Stored[Len(Stored)].v.alpha = 254
    /\ Stored[Len(Stored) - 1].v.alpha # 254
    /\ Stored[Len(Stored)].v.rho # Stored[Len(Stored) - 1].v.rho

\* C3: every alpha and rho stored in the History lies within [0,1].
C3_PropensitiesInUnit ==
    ~econ_store.isNone =>
        \A i \in 1..Len(Stored) :
            InUnit(Stored[i].v.alpha) /\ InUnit(Stored[i].v.rho)

\* an out-of-range slider value was refused and valid overrides were stored
C3_Witness ==
    /\ ~econ_store.isNone
    /\ Len(Stored) = 2
    /\ last.trigger = "rho-output"
    /\ last.rho_override = Some(1200)
    /\ last.err = "ValidationError"
    /\ \E i \in 1..Len(Stored) : Stored[i].v.alpha = 254

\* C4: a step request that fails leaves the stored History as it was.
C4_FailedStepKeepsHistory ==
    (last.trigger \in StepTriggers /\ last.err # "") => econ_store = last.before

C4_Witness ==
    /\ last.trigger = "alpha-output"
    /\ last.err = "ValidationError"
    /\ last.status = "error"
    /\ ~econ_store.isNone
    /\ Len(Stored) = 2

\* C6: the engine rehydrated from the stored History, as a step request
\* rebuilds it with any valid inputs, returns from get_matrix() the matrix
\* that the engine which produced that History returned.
C6_RoundTripMatrix ==
    ~econ_store.isNone =>
        \A sens \in SensValues, mem_input \in MemValues :
            LET econ == Rehydrate(econ_store, sens, mem_input)
            IN  econ.ok => get_matrix(econ) = last.matrix

\* a stepped History of a run started with s_h = 0.5 and s_f = 0.25
C6_Witness ==
    /\ ~econ_store.isNone
    /\ Len(Stored) = 3
    /\ last.matrix[1][1] = 500
    /\ last.matrix[2][2] = 250
    /\ get_matrix(Rehydrate(econ_store, 500, 3)) = last.matrix

\* C7: the keys of the stored History, read back as integers, start at 0 and
\* increase strictly in insertion order, the last one being the largest, and
\* writing the rehydrated History again gives the stored JSON.
C7_KeysIncreaseFromZero ==
    ~econ_store.isNone =>
        LET json == econ_store.json
            key(i) == StrToInt(json[i].k)
        IN  /\ json # <<>>
            /\ json[1].k = <<0>>
            /\ \A i \in 1..(Len(json) - 1) : key(i) < key(i + 1)
            /\ \A i \in 1..Len(json) : key(i) <= key(Len(json))
            /\ MaxKey(Stored) = key(Len(json))
            /\ json_dumps(Stored) = json

C7_Witness ==
    /\ Stepped
    /\ Len(econ_store.json) = 3
    /\ econ_store.json[3].k = <<2>>
    /\ Stored[3].k = 2

\* the smaller of two numbers
Min(a, b) == IF a < b THEN a ELSE b

\* C8: after a step the latest Snapshot has one alpha flag and one rho flag
\* per plotted point, min(memory, number of Snapshots) of them, and the star
\* of every set flag is drawn at the plotted point of the same position.
C8_OutlierFlagsMatchWindow ==
    Stepped =>
        LET new == Stored[Len(Stored)].v
            n   == Min(last.mem, Len(Stored))
            fig == fig_combined
        IN  /\ Len(new.outliers.alpha) = n
            /\ Len(new.outliers.rho) = n
            /\ Len(fig.t_plot) = n
            /\ Len(fig.alpha_plot) = n
            /\ Len(fig.rho_plot) = n
            /\ fig.t_plot = [i \in 1..n |-> i - n]
            /\ fig.alpha_stars =
                 {<<i - n, fig.alpha_plot[i]>> : i \in Flagged(new.outliers.alpha)}
            /\ fig.rho_stars =
                 {<<i - n, fig.rho_plot[i]>> : i \in Flagged(new.outliers.rho)}

\* a window shorter than the History
C8_Witness ==
    /\ Stepped
    /\ Len(Stored) = 3
    /\ last.mem = 1
    /\ Len(Stored[3].v.outliers.alpha) = 1
    /\ fig_combined.t_plot = <<0>>

\* a set flag, drawn as a star
C8_FlagWitness ==
    /\ Stepped
    /\ last.mem = 3
    /\ fig_combined.alpha_stars # {}

\* the step requests in flight: those sent from the 'sim' screen with a
\* History in the store
StepsInFlight ==
    {i \in 1..Len(inflight) :
        /\ inflight[i].trigger_id \in StepTriggers
        /\ inflight[i].screen = "sim"
        /\ ~inflight[i].econ_data.isNone}

\* C5: no two step requests in flight have read the same stored History,
\* and the stored History holds a Snapshot for every step made since the
\* start.
C5_OneStepInFlight ==
    /\ \A i, j \in StepsInFlight :
          i # j => inflight[i].econ_data # inflight[j].econ_data
    /\ ~econ_store.isNone => Len(econ_store.json) = last.steps + 1

\* two steps were made since the start and the History holds one of them
C5_SnapshotLost ==
    /\ ~econ_store.isNone
    /\ last.steps = 2
    /\ Len(econ_store.json) = 2

\* C9: a step request assigns no field of the Snapshot after step() has
\* returned; the overrides are given to step() only.
C9_NoWriteAfterStep ==
    Stepped => last.writes = {}

\* what lines 116-120 assign is what step() was given and stored already
C9_WritesRepeatStep ==
    Stepped => Stored[Len(Stored)] = last.stepped[1]

\* C10: the stored History holds one Snapshot per step since the start plus
\* the initial one, a step keeps every entry it read as it was, and only the
\* plotted series is cut to the last memory entries.
C10_HistoryNeverTruncated ==
    /\ ~econ_store.isNone => Len(econ_store.json) = last.steps + 1
    /\ Stepped =>
         /\ SubSeq(econ_store.json, 1, Len(last.before.json)) = last.before.json
         /\ Len(fig_combined.t_plot) <= last.mem

\* three Snapshots stored, one plotted
C10_Witness ==
    /\ Stepped
    /\ last.steps = 2
    /\ Len(econ_store.json) = 3
    /\ last.mem = 1
    /\ Len(fig_combined.t_plot) = 1

\* the latest request was a start that returned its outputs
Started == last.trigger = "start_btn" /\ last.status = "ok" /\ last.err = ""

\* C11: after a start the stored History is exactly one Snapshot, keyed "0",
\* holding the alpha and rho the start was given and an outliers map with no
\* flag set, whatever History was stored before.
C11_StartStoresInitialSnapshot ==
    Started =>
        /\ ~econ_store.isNone
        /\ Len(econ_store.json) = 1
        /\ econ_store.json[1].k = <<0>>
        /\ econ_store.json[1].v.alpha = last.given[1]
        /\ econ_store.json[1].v.rho = last.given[2]
        /\ \A i \in DOMAIN econ_store.json[1].v.outliers.alpha :
               ~econ_store.json[1].v.outliers.alpha[i]
        /\ \A i \in DOMAIN econ_store.json[1].v.outliers.rho :
               ~econ_store.json[1].v.outliers.rho[i]

\* a restart that replaced a History of three Snapshots
C11_Witness ==
    /\ Started
    /\ last.replaced = 3
    /\ Len(econ_store.json) = 1
    /\ last.given[1] # last.given[2]

\* the latest request was a step request made on the 'sim' screen with a
\* stored History: one that the step branch processes
Processed ==
    last.trigger \in StepTriggers /\ last.scr = "sim" /\ ~last.before.isNone

\* an override is absent or within [0, 1]
ValidOverride(o) == IsNone(o) \/ InUnit(o[1])

Pre == last.pre[1]

\* C13: a start with memory below 1 fails with ConfigurationError and leaves
\* the stored History, the screen state and the interval's disabled flag as
\* they were.
C13_RefusedStartChangesNothing ==
    (last.trigger = "start_btn" /\ last.mem_input[1] < 1) =>
        /\ last.status = "error"
        /\ last.err = "ConfigurationError"
        /\ last.pre # <<>>
        /\ econ_store = Pre.econ_store
        /\ screen = Pre.screen
        /\ disabled = Pre.disabled

\* a start with memory 0 refused while a run of three Snapshots is on screen
C13_Witness ==
    /\ last.trigger = "start_btn" /\ last.mem_input = Some(0)
    /\ last.err = "ConfigurationError"
    /\ screen = "sim" /\ ~disabled
    /\ ~econ_store.isNone /\ Len(econ_store.json) = 3

\* the seven components are as they were when the latest request was
\* answered, the slider that fired holding the value it was moved to
NothingChanged ==
    /\ last.pre # <<>>
    /\ screen = Pre.screen
    /\ econ_store = Pre.econ_store
    /\ disabled = Pre.disabled
    /\ fig1 = Pre.fig1
    /\ fig_combined = Pre.fig_combined
    /\ alpha_output = Pre.alpha_output
    /\ rho_output = Pre.rho_output

\* C14: an interval tick or slider change made while the screen state is not
\* 'sim' or the store is empty updates no output and leaves the History
\* untouched; so between a stop and the next start no Snapshot is appended.
C14_NoStepOffSim ==
    (last.trigger \in StepTriggers
       /\ (last.scr # "sim" \/ last.before.isNone)) =>
        /\ last.status = "prevent"
        /\ last.stepped = <<>>
        /\ NothingChanged

\* a slider moved after a stop, over a stored History of two Snapshots
C14_Witness ==
    /\ last.trigger = "alpha-output"
    /\ last.scr = "setup"
    /\ last.status = "prevent"
    /\ disabled
    /\ ~econ_store.isNone /\ Len(econ_store.json) = 2

\* an interval tick on the 'setup' screen with nothing stored
C14_EmptyWitness ==
    /\ last.trigger = "interval-update"
    /\ last.status = "prevent"
    /\ last.before.isNone

\* the interval is disabled exactly on the 'setup' screen
TimerFollowsScreen == disabled <=> (screen = "setup")

C15_StepWitness ==
    /\ Stepped /\ last.returned
    /\ screen = "sim" /\ ~disabled

\* C16: a stop sets the screen state to 'setup' and disables the interval,
\* and leaves the stored History, both figures and both slider values as
\* they were.
C16_StopKeepsHistoryAndFigures ==
    last.trigger = "stop_btn" =>
        /\ last.status = "ok" /\ last.err = ""
        /\ screen = "setup"
        /\ disabled
        /\ last.pre # <<>>
        /\ econ_store = Pre.econ_store
        /\ fig1 = Pre.fig1
        /\ fig_combined = Pre.fig_combined
        /\ alpha_output = Pre.alpha_output
        /\ rho_output = Pre.rho_output

\* a stop of a run that had stored three Snapshots and drawn its figures
C16_Witness ==
    /\ last.trigger = "stop_btn"
    /\ Pre.screen = "sim" /\ ~Pre.disabled
    /\ ~econ_store.isNone /\ Len(econ_store.json) = 3
    /\ fig1.kind = "heatmap"
    /\ alpha_output # None /\ rho_output # None

\* the latest request was a step request that reached the call of step()
ReachedStep == Processed /\ last.err # "ConfigurationError"

\* C17: a step request passes step() at most one override, chosen by what
\* fired: an interval tick passes none, the alpha slider passes its value as
\* alpha_override and no rho_override, the rho slider passes its value as
\* rho_override and no alpha_override, whatever the other slider holds.
C17_OverrideByTrigger ==
    ReachedStep =>
        /\ last.trigger = "interval-update" =>
               last.alpha_override = None /\ last.rho_override = None
        /\ last.trigger = "alpha-output" =>
               last.alpha_override = last.sliders[1] /\ last.rho_override = None
        /\ last.trigger = "rho-output" =>
               last.rho_override = last.sliders[2] /\ last.alpha_override = None

\* the alpha slider fired while the rho slider held a value out of range:
\* the step passed the alpha value alone and returned
C17_Witness ==
    /\ Stepped /\ last.trigger = "alpha-output"
    /\ last.alpha_override # None
    /\ last.sliders[2] # None /\ ~InUnit(last.sliders[2][1])
    /\ last.rho_override = None

\* an interval tick while both sliders hold a value
C17_TickWitness ==
    /\ Stepped /\ last.trigger = "interval-update"
    /\ last.sliders[1] # None /\ last.sliders[2] # None
    /\ last.alpha_override = None /\ last.rho_override = None

====
